---- MODULE Spec2Model ----
(***************************************************************************)
(* A model of path-js (src/src/index.ts): the Path class, a handle bound   *)
(* to a resolved path, its classification (type / strictType), its derived *)
(* paths (resolve, changeFileName, changeFileExt, changeDirName) and its   *)
(* file and directory operations, over a model of the POSIX branch of      *)
(* node:path and of the node:fs calls the class makes.                     *)
(*                                                                         *)
(* A string is a sequence of one-character strings, so that the path       *)
(* algebra (separators, dots, extensions) is computed character by         *)
(* character as node:path computes it.                                     *)
(***************************************************************************)
EXTENDS Integers, Sequences, FiniteSets

VARIABLES this, fs, last, calls, handles

vars == <<this, fs, last, calls, handles>>

\* ------------------------------------------------------------------ bounds

\* Most calls of asynchronous methods made in one run.
MaxCalls == 2

\* Longest raw string handed to the constructor as a fragment.
MaxLen == 3

\* Longest string handed to a method as an argument (a name, an extension,
\* a fragment of resolve, a destination).
MaxArgLen == 2

\* Most fragments in one variadic argument list.
MaxFrags == 2

\* Longest path a handle is built for.
MaxPathLen == 6

\* Most entries on the disk besides the root directory.
MaxEntries == 2

\* Longest file content, in bytes.
MaxDataLen == 1

\* Longest content of a file that is read, in bytes.
MaxFileLen == 3

\* Largest byte offset and byte length asked of readFileOffset.
MaxOffset == 4

Alphabet == {"/", ".", "a"}

\* The bytes of a file: a NUL byte and the character "1".
Bytes == {0, 49}

RECURSIVE SeqsOfLen(_, _)
SeqsOfLen(S, k) ==
    IF k = 0 THEN {<<>>}
    ELSE {Append(s, c) : s \in SeqsOfLen(S, k - 1), c \in S}

SeqsUpTo(S, n) == UNION {SeqsOfLen(S, k) : k \in 0..n}

\* The raw strings a fragment of the constructor is drawn from.
FragStrings == SeqsUpTo(Alphabet, MaxLen)

\* The strings a method argument is drawn from.
ArgStrings == SeqsUpTo(Alphabet, MaxArgLen)

\* The contents a file is written with.
Datas == SeqsUpTo(Bytes, MaxDataLen)

\* A name with an extension and a nested path.
Examples == {<<"a", ".", "a">>, <<"a", "/", "a">>}

\* ------------------------------------------------------- node:path (POSIX)

Slash == "/"
Dot == "."

\* process.cwd(), read by resolve() when no fragment is absolute: the
\* program runs in the root directory.
posixCwd == <<Slash>>

\* path.split('/'), empty segments kept.
RECURSIVE SplitAcc(_, _, _)
SplitAcc(s, i, cur) ==
    IF i > Len(s) THEN <<cur>>
    ELSE IF s[i] = Slash THEN <<cur>> \o SplitAcc(s, i + 1, <<>>)
    ELSE SplitAcc(s, i + 1, Append(cur, s[i]))

RECURSIVE NormSegs(_, _, _, _)
NormSegs(segs, i, res, allowAboveRoot) ==
    IF i > Len(segs) THEN res
    ELSE LET seg == segs[i] IN
         IF seg = <<>> \/ seg = <<Dot>>
         THEN NormSegs(segs, i + 1, res, allowAboveRoot)
         ELSE IF seg = <<Dot, Dot>>
         THEN IF Len(res) > 0 /\ res[Len(res)] # <<Dot, Dot>>
              THEN NormSegs(segs, i + 1, SubSeq(res, 1, Len(res) - 1), allowAboveRoot)
              ELSE IF allowAboveRoot
              THEN NormSegs(segs, i + 1, Append(res, seg), allowAboveRoot)
              ELSE NormSegs(segs, i + 1, res, allowAboveRoot)
         ELSE NormSegs(segs, i + 1, Append(res, seg), allowAboveRoot)

RECURSIVE JoinSegs(_)
JoinSegs(segs) ==
    IF Len(segs) = 0 THEN <<>>
    ELSE IF Len(segs) = 1 THEN segs[1]
    ELSE segs[1] \o <<Slash>> \o JoinSegs(Tail(segs))

\* normalizeString(path, allowAboveRoot, '/', isPosixPathSeparator): "." and
\* empty segments dropped, ".." resolved, no leading or trailing separator.
normalizeString(path, allowAboveRoot) ==
    JoinSegs(NormSegs(SplitAcc(path, 1, <<>>), 1, <<>>, allowAboveRoot))

isAbsolute(path) == Len(path) > 0 /\ path[1] = Slash

\* The loop of posix.resolve: fragments are taken from the right until one
\* is absolute; index 0 stands for process.cwd().
RECURSIVE ResolveLoop(_, _, _, _)
ResolveLoop(args, i, resolvedPath, resolvedAbsolute) ==
    IF resolvedAbsolute THEN <<resolvedPath, resolvedAbsolute>>
    ELSE LET p == IF i >= 1 THEN args[i] ELSE posixCwd IN
         IF Len(p) = 0
         THEN IF i = 0 THEN <<resolvedPath, resolvedAbsolute>>
              ELSE ResolveLoop(args, i - 1, resolvedPath, resolvedAbsolute)
         ELSE IF i = 0 THEN <<p \o <<Slash>> \o resolvedPath, p[1] = Slash>>
         ELSE ResolveLoop(args, i - 1, p \o <<Slash>> \o resolvedPath, p[1] = Slash)

\* posix.resolve(...args)
resolve(args) ==
    LET r == ResolveLoop(args, Len(args), <<>>, FALSE)
        n == normalizeString(r[1], ~r[2])
    IN  IF r[2] THEN <<Slash>> \o n
        ELSE IF Len(n) > 0 THEN n ELSE <<Dot>>

\* posix.normalize(path): as normalizeString, but the root and a trailing
\* separator are kept.
normalize(path) ==
    IF Len(path) = 0 THEN <<Dot>>
    ELSE LET abs == path[1] = Slash
             trailingSeparator == path[Len(path)] = Slash
             n == normalizeString(path, ~abs)
         IN  IF Len(n) = 0
             THEN IF abs THEN <<Slash>>
                  ELSE IF trailingSeparator THEN <<Dot, Slash>> ELSE <<Dot>>
             ELSE (IF abs THEN <<Slash>> ELSE <<>>) \o n
                  \o (IF trailingSeparator THEN <<Slash>> ELSE <<>>)

RECURSIVE JoinNonEmpty(_, _)
JoinNonEmpty(args, i) ==
    IF i > Len(args) THEN <<>>
    ELSE LET rest == JoinNonEmpty(args, i + 1) IN
         IF Len(args[i]) = 0 THEN rest
         ELSE IF Len(rest) = 0 THEN args[i]
         ELSE args[i] \o <<Slash>> \o rest

\* posix.join(...args): the non-empty fragments joined by '/', normalized.
join(args) ==
    LET joined == JoinNonEmpty(args, 1) IN
    IF Len(joined) = 0 THEN <<Dot>> ELSE normalize(joined)

\* The largest index in lo..hi whose character satisfies "is a separator"
\* = wantSlash, or 0 if there is none.
RECURSIVE LastIndex(_, _, _, _)
LastIndex(path, lo, hi, wantSlash) ==
    IF hi < lo THEN 0
    ELSE IF (path[hi] = Slash) = wantSlash THEN hi
    ELSE LastIndex(path, lo, hi - 1, wantSlash)

\* posix.dirname(path)
dirname(path) ==
    IF Len(path) = 0 THEN <<Dot>>
    ELSE LET hasRoot == path[1] = Slash
             \* the last character that is no separator, searched down to
             \* the second character
             lastCh == LastIndex(path, 2, Len(path), FALSE)
             \* the last separator before it
             end == IF lastCh = 0 THEN 0 ELSE LastIndex(path, 2, lastCh - 1, TRUE)
         IN  IF end = 0 THEN (IF hasRoot THEN <<Slash>> ELSE <<Dot>>)
             ELSE IF hasRoot /\ end = 2 THEN <<Slash, Slash>>
             ELSE SubSeq(path, 1, end - 1)

\* The bounds [start, end] of the last segment of path, trailing separators
\* left out; end = 0 when the path holds separators only.
LastSegment(path) ==
    LET end == LastIndex(path, 1, Len(path), FALSE)
        sep == IF end = 0 THEN 0 ELSE LastIndex(path, 1, end - 1, TRUE)
    IN  [start |-> sep + 1, end |-> end]

EndsWith(s, suffix) ==
    /\ Len(suffix) <= Len(s)
    /\ SubSeq(s, Len(s) - Len(suffix) + 1, Len(s)) = suffix

\* posix.basename(path, suffix); an empty suffix is the one-argument call.
basename(path, suffix) ==
    LET seg == LastSegment(path)
        base == IF seg.end = 0 THEN <<>> ELSE SubSeq(path, seg.start, seg.end)
    IN  IF Len(suffix) > 0 /\ Len(suffix) <= Len(path)
        THEN IF suffix = path THEN <<>>
             ELSE IF seg.end = 0 THEN path
             ELSE IF Len(base) < Len(suffix) /\ EndsWith(suffix, base)
             \* the suffix was matched in part when the segment ran out
             THEN SubSeq(path, seg.start, Len(path))
             ELSE IF EndsWith(base, suffix) /\ base # suffix
             THEN SubSeq(base, 1, Len(base) - Len(suffix))
             ELSE base
        ELSE base

\* extname with a leading dot taken for the start of an extension.
extnameOfHidden(path) ==
    LET seg == LastSegment(path)
        base == IF seg.end = 0 THEN <<>> ELSE SubSeq(path, seg.start, seg.end)
        dots == {i \in 1..Len(base) : base[i] = Dot}
        startDot == IF dots = {} THEN 0
                    ELSE CHOOSE i \in dots : \A j \in dots : j <= i
    IN  IF startDot = 0 \/ base = <<Dot, Dot>> THEN <<>>
        ELSE SubSeq(base, startDot, Len(base))

\* posix.extname(path): from the last '.' of the last segment, unless there
\* is none, it is the segment's first character, or the segment is "..".
extname(path) ==
    LET seg == LastSegment(path)
        base == IF seg.end = 0 THEN <<>> ELSE SubSeq(path, seg.start, seg.end)
        dots == {i \in 1..Len(base) : base[i] = Dot}
        startDot == IF dots = {} THEN 0
                    ELSE CHOOSE i \in dots : \A j \in dots : j <= i
    IN  IF startDot = 0 \/ startDot = 1 \/ base = <<Dot, Dot>> THEN <<>>
        ELSE SubSeq(base, startDot, Len(base))

\* ------------------------------------------------------------------ errors

NoError == [class |-> "none", operator |-> "", path |-> <<>>]

\* new PathJSError(message): the message names the path and the operation
\* where the code embeds them.
PathJSError(operator, path) ==
    [class |-> "PathJSError", operator |-> operator, path |-> path]

\* An error thrown by node itself (a system error of node:fs, a TypeError of
\* node:path's argument validation): no PathJSError.
NodeError(class) == [class |-> class, operator |-> "", path |-> <<>>]

\* ------------------------------------------------------- Path: construction

\* The five readonly fields, computed from the resolved path.
Fields(path) ==
    [path     |-> path,
     root     |-> dirname(path),
     fullname |-> basename(path, <<>>),
     name     |-> basename(path, extname(path)),
     ext      |-> extname(path)]

\* What a throwing constructor leaves: no handle.
NoHandle ==
    [path |-> <<>>, root |-> <<>>, fullname |-> <<>>, name |-> <<>>, ext |-> <<>>]

\* A fragment of the constructor: a raw string, or a Path (which contributes
\* its path).
Raw(s) == [isPath |-> FALSE, str |-> s]
Handle(h) == [isPath |-> TRUE, str |-> h.path]

\* The loop without the check of the position of the Path fragment.
RECURSIVE CtorLoopAnyPosition(_, _, _, _, _)
CtorLoopAnyPosition(paths, i, allPaths, hasPathClass, pathIndex) ==
    IF i > Len(paths) THEN [err |-> NoError, allPaths |-> allPaths]
    ELSE IF paths[i].isPath /\ hasPathClass
    THEN [err |-> PathJSError("", <<>>), allPaths |-> allPaths]
    ELSE CtorLoopAnyPosition(paths, i + 1, Append(allPaths, paths[i].str),
                             hasPathClass \/ paths[i].isPath, pathIndex + 1)

\* The loop of the constructor over its fragments.
RECURSIVE CtorLoop(_, _, _, _, _)
CtorLoop(paths, i, allPaths, hasPathClass, pathIndex) ==
    IF i > Len(paths) THEN [err |-> NoError, allPaths |-> allPaths]
    ELSE IF paths[i].isPath
    THEN IF hasPathClass
         THEN [err |-> PathJSError("", <<>>), allPaths |-> allPaths]
         ELSE IF pathIndex # 0
         THEN [err |-> PathJSError("", <<>>), allPaths |-> allPaths]
         ELSE CtorLoop(paths, i + 1, Append(allPaths, paths[i].str), TRUE, pathIndex + 1)
    ELSE CtorLoop(paths, i + 1, Append(allPaths, paths[i].str), hasPathClass, pathIndex + 1)

\* new Path(...paths): the handle, or the error thrown.
constructor(paths) ==
    LET l == CtorLoop(paths, 1, <<>>, FALSE, 0) IN
    IF l.err.class # "none" THEN [err |-> l.err, ret |-> NoHandle]
    ELSE [err |-> NoError, ret |-> Fields(resolve(l.allPaths))]

\* --------------------------------------------------------------- node:fs

\* The disk: a function from the paths that exist to their entries, a
\* regular file with its content or a directory.
File(data) == [kind |-> "file", data |-> data]
Directory == [kind |-> "directory", data |-> <<>>]

RootPath == <<Slash>>

\* The disk the program starts on: the root directory, empty.
InitFs == [p \in {RootPath} |-> Directory]

\* existsSync(path)
existsSync(f, path) == path \in DOMAIN f

\* lstatSync(path).isFile() / .isDirectory(); lstatSync throws ENOENT on a
\* path that does not exist, which the callers below check first.
isFile(f, path) == f[path].kind = "file"
isDirectory(f, path) == f[path].kind = "directory"

\* ------------------------------------------------------ Path: classification

\* exists()
exists(h, f) == existsSync(f, h.path)

\* checkExistence(operator, checkExistenceAs): the error it throws, if any.
checkExistence(h, f, operator) ==
    IF ~exists(h, f) THEN PathJSError(operator, h.path) ELSE NoError

\* checkAsFile(operator); lstatSync throws on a missing path.
checkAsFile(h, f, operator) ==
    IF ~existsSync(f, h.path) THEN NodeError("SystemError")
    ELSE IF ~isFile(f, h.path) THEN PathJSError(operator, h.path)
    ELSE NoError

\* checkAsDirectory(operator)
checkAsDirectory(h, f, operator) ==
    IF ~existsSync(f, h.path) THEN NodeError("SystemError")
    ELSE IF ~isDirectory(f, h.path) THEN PathJSError(operator, h.path)
    ELSE NoError

\* type() answering from the extension alone.
typeByExtension(h, f) == IF h.ext # <<>> THEN "file" ELSE "directory"

\* type(): the entry's kind if the path exists; the catch branch, taken when
\* checkExistence throws, answers from the extension.
type(h, f) ==
    IF checkExistence(h, f, "type").class = "none"
    THEN IF isFile(f, h.path) THEN "file" ELSE "directory"
    ELSE IF h.ext # <<>> THEN "file" ELSE "directory"

\* strictType() falling back to the extension as type() does.
strictTypeLenient(h, f) ==
    [err |-> NoError,
     ret |-> IF exists(h, f)
             THEN (IF isFile(f, h.path) THEN "file" ELSE "directory")
             ELSE (IF h.ext # <<>> THEN "file" ELSE "directory")]

\* strictType(): the entry's kind, or the error of checkExistence.
strictType(h, f) ==
    LET e == checkExistence(h, f, "type") IN
    IF e.class # "none" THEN [err |-> e, ret |-> ""]
    ELSE [err |-> NoError, ret |-> IF isFile(f, h.path) THEN "file" ELSE "directory"]

\* isFilePath() of a path that exists only: a path that does not exist is
\* no directory either.
isFilePathOrMissing(h, f) == ~exists(h, f) \/ type(h, f) = "file"

\* isFilePath()
isFilePath(h, f) == type(h, f) = "file"

\* isDirPath()
isDirPath(h, f) == type(h, f) = "directory"

\* toJSON() with exists and type as they were on the first disk.
toJSONCached(h, f) ==
    [path |-> h.path, exists |-> existsSync(InitFs, h.path),
     type |-> IF existsSync(InitFs, h.path)
              THEN (IF isFile(InitFs, h.path) THEN "file" ELSE "directory")
              ELSE (IF h.ext # <<>> THEN "file" ELSE "directory"),
     root |-> h.root, name |-> h.name, fullname |-> h.fullname, ext |-> h.ext]

\* toJSON()
toJSON(h, f) ==
    [path |-> h.path, exists |-> exists(h, f), type |-> type(h, f),
     root |-> h.root, name |-> h.name, fullname |-> h.fullname, ext |-> h.ext]

\* ------------------------------------------------------ Path: path editors

StartsWithDot(s) == Len(s) > 0 /\ s[1] = Dot

\* newFileExt.startsWith('.') ? newFileExt.slice(1) : newFileExt
StripDot(s) == IF StartsWithDot(s) THEN Tail(s) ELSE s

\* string.slice(1)
Slice1(s) == IF Len(s) = 0 THEN <<>> ELSE Tail(s)

\* An optional argument: given, or left out (undefined) or null.
Some(s) == [given |-> TRUE, str |-> s]
None == [given |-> FALSE, str |-> <<>>]

\* resolve() from the parent directory whatever the receiver is.
resolveFromRoot(h, f, paths) ==
    IF Len(paths) = 0 THEN [err |-> NodeError("TypeError"), ret |-> <<>>]
    ELSE IF isAbsolute(paths[1]) THEN [err |-> NoError, ret |-> resolve(paths)]
    ELSE [err |-> NoError, ret |-> resolve(<<h.root>> \o paths)]

\* resolve(...paths); isAbsolute(paths[0]) throws a TypeError when no
\* fragment was passed.
resolveFrom(h, f, paths) ==
    IF Len(paths) = 0 THEN [err |-> NodeError("TypeError"), ret |-> <<>>]
    ELSE IF isAbsolute(paths[1]) THEN [err |-> NoError, ret |-> resolve(paths)]
    ELSE IF isDirPath(h, f) THEN [err |-> NoError, ret |-> resolve(<<h.path>> \o paths)]
    ELSE [err |-> NoError, ret |-> resolve(<<h.root>> \o paths)]

\* changeFileName() with the dot of the new extension kept.
changeFileNameKeepDot(h, f, newFileName, newFileExt) ==
    IF isDirPath(h, f)
    THEN [err |-> PathJSError("changeFileName", h.path), ret |-> <<>>]
    ELSE [err |-> NoError,
          ret |-> resolve(<<h.root,
                            (IF newFileName.given THEN newFileName.str ELSE h.name)
                            \o <<Dot>>
                            \o (IF newFileExt.given THEN newFileExt.str
                                ELSE Slice1(h.ext))>>)]

\* changeFileName(newFileName, newFileExt)
changeFileName(h, f, newFileName, newFileExt) ==
    IF isDirPath(h, f)
    THEN [err |-> PathJSError("changeFileName", h.path), ret |-> <<>>]
    ELSE [err |-> NoError,
          ret |-> resolve(<<h.root,
                            (IF newFileName.given THEN newFileName.str ELSE h.name)
                            \o <<Dot>>
                            \o (IF newFileExt.given /\ StartsWithDot(newFileExt.str)
                                THEN Slice1(newFileExt.str)
                                ELSE IF newFileExt.given THEN newFileExt.str
                                ELSE Slice1(h.ext))>>)]

\* changeFileExt() with the dot of the new extension kept.
changeFileExtKeepDot(h, f, newFileExt) ==
    IF isDirPath(h, f)
    THEN [err |-> PathJSError("changeFileName", h.path), ret |-> <<>>]
    ELSE [err |-> NoError,
          ret |-> resolve(<<h.root, h.name \o <<Dot>> \o newFileExt>>)]

\* changeFileExt(newFileExt); its message names changeFileName.
changeFileExt(h, f, newFileExt) ==
    IF isDirPath(h, f)
    THEN [err |-> PathJSError("changeFileName", h.path), ret |-> <<>>]
    ELSE [err |-> NoError,
          ret |-> resolve(<<h.root, h.name \o <<Dot>> \o StripDot(newFileExt)>>)]

\* changeDirName() that keeps the extension of the receiver.
changeDirNameKeepExt(h, f, newDirName) ==
    IF isFilePath(h, f)
    THEN [err |-> PathJSError("changeDirName", h.path), ret |-> <<>>]
    ELSE [err |-> NoError, ret |-> resolve(<<h.root, newDirName \o h.ext>>)]

\* changeDirName(newDirName)
changeDirName(h, f, newDirName) ==
    IF isFilePath(h, f)
    THEN [err |-> PathJSError("changeDirName", h.path), ret |-> <<>>]
    ELSE [err |-> NoError, ret |-> resolve(<<h.root, newDirName>>)]

\* ------------------------------------------------- node:fs: the mutations

\* The function f without the paths in gone.
Without(f, gone) == [p \in (DOMAIN f) \ gone |-> f[p]]

\* The function f with path bound to entry.
With(f, path, entry) ==
    [p \in (DOMAIN f) \cup {path} |-> IF p = path THEN entry ELSE f[p]]

\* path lies below dir.
IsBelow(path, dir) ==
    /\ Len(path) > Len(dir)
    /\ IF dir = RootPath THEN path[1] = Slash
       ELSE SubSeq(path, 1, Len(dir) + 1) = dir \o <<Slash>>

\* The directory a new entry at path is made in exists and is a directory
\* (ENOENT / ENOTDIR otherwise).
ParentIsDirectory(f, path) ==
    /\ existsSync(f, dirname(path))
    /\ isDirectory(f, dirname(path))

\* The ancestors of path, the root left out.
RECURSIVE Ancestors(_)
Ancestors(path) ==
    IF dirname(path) = RootPath \/ dirname(path) = path THEN {}
    ELSE {dirname(path)} \cup Ancestors(dirname(path))

\* A result of a filesystem call: the disk it leaves and the error thrown.
FsOk(f) == [fs |-> f, err |-> NoError]
FsFail(f) == [fs |-> f, err |-> NodeError("SystemError")]

\* unlinkSync(path)
unlinkSync(f, path) ==
    IF ~existsSync(f, path) \/ isDirectory(f, path) THEN FsFail(f)
    ELSE FsOk(Without(f, {path}))

\* writeFileSync(path, data): the file is created or truncated.
nodeWriteFileSync(f, path, data) ==
    IF existsSync(f, path) /\ isDirectory(f, path) THEN FsFail(f)
    ELSE IF ~ParentIsDirectory(f, path) THEN FsFail(f)
    ELSE FsOk(With(f, path, File(data)))

\* mkdirSync(path, { recursive })
mkdirSync(f, path, recursive) ==
    IF existsSync(f, path)
    THEN IF recursive /\ isDirectory(f, path) THEN FsOk(f) ELSE FsFail(f)
    ELSE IF ~recursive
    THEN IF ParentIsDirectory(f, path) THEN FsOk(With(f, path, Directory)) ELSE FsFail(f)
    ELSE IF \E a \in Ancestors(path) : existsSync(f, a) /\ ~isDirectory(f, a)
    THEN FsFail(f)
    ELSE FsOk([p \in (DOMAIN f) \cup Ancestors(path) \cup {path} |->
                  IF p \in DOMAIN f THEN f[p] ELSE Directory])

\* rmSync(path, { recursive }): a directory is removed only recursively
\* (ERR_FS_EISDIR otherwise); of the root, what lies below is removed and
\* the removal of the root itself fails (EBUSY).
rmSync(f, path, recursive) ==
    IF ~existsSync(f, path) THEN FsFail(f)
    ELSE IF isDirectory(f, path) /\ ~recursive THEN FsFail(f)
    ELSE IF path = RootPath THEN FsFail(Without(f, {p \in DOMAIN f : IsBelow(p, path)}))
    ELSE FsOk(Without(f, {path} \cup {p \in DOMAIN f : IsBelow(p, path)}))

\* renameSync() leaving the old path in place.
renameSyncKeepingOld(f, oldPath, newPath) ==
    IF ~existsSync(f, oldPath) \/ ~ParentIsDirectory(f, newPath) THEN FsFail(f)
    ELSE IF existsSync(f, newPath) /\ isDirectory(f, newPath) THEN FsFail(f)
    ELSE FsOk(With(f, newPath, f[oldPath]))

\* renameSync(oldPath, newPath), of a file onto a path that does not exist.
renameSync(f, oldPath, newPath) ==
    IF ~existsSync(f, oldPath) \/ ~ParentIsDirectory(f, newPath) THEN FsFail(f)
    ELSE IF existsSync(f, newPath) /\ isDirectory(f, newPath) THEN FsFail(f)
    ELSE FsOk(With(Without(f, {oldPath}), newPath, f[oldPath]))

\* copyFileSync() creating the destination with no content.
nodeCopyFileSyncEmpty(f, src, dest) ==
    IF ~existsSync(f, src) \/ isDirectory(f, src) THEN FsFail(f)
    ELSE IF ~ParentIsDirectory(f, dest) THEN FsFail(f)
    ELSE IF existsSync(f, dest) /\ isDirectory(f, dest) THEN FsFail(f)
    ELSE FsOk(With(f, dest, File(<<>>)))

\* copyFileSync(src, dest)
nodeCopyFileSync(f, src, dest) ==
    IF ~existsSync(f, src) \/ isDirectory(f, src) THEN FsFail(f)
    ELSE IF ~ParentIsDirectory(f, dest) THEN FsFail(f)
    ELSE IF existsSync(f, dest) /\ isDirectory(f, dest) THEN FsFail(f)
    ELSE FsOk(With(f, dest, f[src]))

\* A result of a call that reads: the value returned and the error thrown.
Got(ret) == [ret |-> ret, err |-> NoError]
Failed(err) == [ret |-> <<>>, err |-> err]

\* readFileSync(path): the bytes of the file (ENOENT on a path that does not
\* exist, EISDIR on a directory).
nodeReadFileSync(f, path) ==
    IF ~existsSync(f, path) \/ isDirectory(f, path)
    THEN Failed(NodeError("SystemError"))
    ELSE Got(f[path].data)

\* node:fs/promises, each call awaited to its completion: what the call
\* does to the disk is what its synchronous counterpart does.
unlink(f, path) == unlinkSync(f, path)
nodeWriteFile(f, path, data) == nodeWriteFileSync(f, path, data)
rename(f, oldPath, newPath) == renameSync(f, oldPath, newPath)
nodeCopyFile(f, src, dest) == nodeCopyFileSync(f, src, dest)
nodeReadFile(f, path) == nodeReadFileSync(f, path)

mkdir(f, path, recursive) == mkdirSync(f, path, recursive)
rm(f, path, recursive) == rmSync(f, path, recursive)

\* readdirSync(path): the names of the entries of the directory (ENOENT on a
\* path that does not exist, ENOTDIR on a file). The order of the names is
\* the directory's own and is left out.
readdirSync(f, path) ==
    IF ~existsSync(f, path) \/ ~isDirectory(f, path)
    THEN Failed(NodeError("SystemError"))
    ELSE Got({basename(p, <<>>) : p \in {q \in DOMAIN f : q # path /\ dirname(q) = path}})

readdir(f, path) == readdirSync(f, path)

\* createWriteStream(path): the stream opens the file to write, which
\* creates it or empties it; a failure to open is an event of the stream
\* and is not thrown.
createWriteStream(f, path) ==
    LET r == nodeWriteFileSync(f, path, <<>>) IN
    [fs |-> r.fs, ret |-> [stream |-> path], err |-> NoError]

\* open(path, flags), to read: a FileHandle on the file. A directory opens
\* for reading as well; reading from its handle fails (EISDIR).
FileHandle(path) == [fd |-> path]
open(f, path) ==
    IF ~existsSync(f, path) THEN Failed(NodeError("SystemError"))
    ELSE Got(FileHandle(path))

\* ---------------------------------------- Path: file and directory methods

\* A result of a method: the disk it leaves, the value returned and the
\* error thrown.
Done(f, ret) == [fs |-> f, ret |-> ret, err |-> NoError]
Thrown(f, err) == [fs |-> f, ret |-> <<>>, err |-> err]

\* The first error of two checks made one after the other.
FirstError(e1, e2) == IF e1.class # "none" THEN e1 ELSE e2

\* deleteFileSync() checking the type before the existence.
deleteFileSyncTypeFirst(h, f) ==
    LET e == FirstError(checkAsFile(h, f, "deleteFileSync"),
                        checkExistence(h, f, "deleteFileSync"))
    IN  IF e.class # "none" THEN Thrown(f, e)
        ELSE LET r == unlinkSync(f, h.path) IN
             IF r.err.class # "none" THEN Thrown(r.fs, r.err) ELSE Done(r.fs, <<>>)

\* deleteFileSync()
deleteFileSync(h, f) ==
    LET e == FirstError(checkExistence(h, f, "deleteFileSync"),
                        checkAsFile(h, f, "deleteFileSync"))
    IN  IF e.class # "none" THEN Thrown(f, e)
        ELSE LET r == unlinkSync(f, h.path) IN
             IF r.err.class # "none" THEN Thrown(r.fs, r.err) ELSE Done(r.fs, <<>>)

\* writeFileSync() appending to the file that is there.
writeFileSyncAppend(h, f, data) ==
    LET old == IF exists(h, f) /\ isFile(f, h.path) THEN f[h.path].data ELSE <<>>
        d == IF exists(h, f) THEN deleteFileSync(h, f) ELSE Done(f, <<>>)
    IN  IF d.err.class # "none" THEN Thrown(d.fs, d.err)
        ELSE LET r == nodeWriteFileSync(d.fs, h.path, old \o data) IN
             IF r.err.class # "none" THEN Thrown(r.fs, r.err) ELSE Done(r.fs, h.path)

\* writeFileSync(data, encoding)
writeFileSync(h, f, data) ==
    LET d == IF exists(h, f) THEN deleteFileSync(h, f) ELSE Done(f, <<>>) IN
    IF d.err.class # "none" THEN Thrown(d.fs, d.err)
    ELSE LET r == nodeWriteFileSync(d.fs, h.path, data) IN
         IF r.err.class # "none" THEN Thrown(r.fs, r.err) ELSE Done(r.fs, h.path)

\* The destination of renameFile and copyFile:
\* new Path(isAbsolute(p) ? p : resolve(dirname(this.path), p)).
Destination(h, newPath) ==
    constructor(<<Raw(IF isAbsolute(newPath) THEN newPath
                      ELSE resolve(<<dirname(h.path), newPath>>))>>).ret

\* renameFileSync() that does not look for the destination.
renameFileSyncOverwrite(h, f, newPath) ==
    LET e == FirstError(checkExistence(h, f, "renameFileSync"),
                        checkAsFile(h, f, "renameFileSync"))
        nPath == Destination(h, newPath)
    IN  IF e.class # "none" THEN Thrown(f, e)
        ELSE LET r == renameSync(f, h.path, nPath.path) IN
             IF r.err.class # "none" THEN Thrown(r.fs, r.err) ELSE Done(r.fs, nPath.path)

\* renameFileSync(newPath)
renameFileSync(h, f, newPath) ==
    LET e == FirstError(checkExistence(h, f, "renameFileSync"),
                        checkAsFile(h, f, "renameFileSync"))
        nPath == Destination(h, newPath)
    IN  IF e.class # "none" THEN Thrown(f, e)
        ELSE IF exists(nPath, f) THEN Thrown(f, PathJSError("", nPath.path))
        ELSE LET r == renameSync(f, h.path, nPath.path) IN
             IF r.err.class # "none" THEN Thrown(r.fs, r.err) ELSE Done(r.fs, nPath.path)

\* copyFileSync(destPath); its checks name copyFile.
copyFileSync(h, f, destPath) ==
    LET e == FirstError(checkExistence(h, f, "copyFile"),
                        checkAsFile(h, f, "copyFile"))
        dPath == Destination(h, destPath)
    IN  IF e.class # "none" THEN Thrown(f, e)
        ELSE IF exists(dPath, f) THEN Thrown(f, PathJSError("", dPath.path))
        ELSE LET r == nodeCopyFileSync(f, h.path, dPath.path) IN
             IF r.err.class # "none" THEN Thrown(r.fs, r.err) ELSE Done(r.fs, dPath.path)

\* mkDirSync() returning on a directory that is there already.
mkDirSyncLenient(h, f, recursive) ==
    IF exists(h, f) /\ ~isDirectory(f, h.path) THEN Thrown(f, PathJSError("", h.path))
    ELSE LET r == mkdirSync(f, h.path, TRUE) IN
         IF r.err.class # "none" THEN Thrown(r.fs, r.err) ELSE Done(r.fs, h.path)

\* mkDirSync(recursive)
mkDirSync(h, f, recursive) ==
    IF exists(h, f) THEN Thrown(f, PathJSError("", h.path))
    ELSE LET r == mkdirSync(f, h.path, recursive) IN
         IF r.err.class # "none" THEN Thrown(r.fs, r.err) ELSE Done(r.fs, h.path)

\* deleteDirSync(recursive); its checks name rmDir.
deleteDirSync(h, f, recursive) ==
    LET e == FirstError(checkExistence(h, f, "rmDir"),
                        checkAsDirectory(h, f, "rmDir"))
    IN  IF e.class # "none" THEN Thrown(f, e)
        ELSE LET r == rmSync(f, h.path, recursive) IN
             IF r.err.class # "none" THEN Thrown(r.fs, r.err) ELSE Done(r.fs, <<>>)

\* openFile(flags), to read
openFile(h, f) ==
    LET e == FirstError(checkExistence(h, f, "openFile"),
                        checkAsFile(h, f, "openFile"))
    IN  IF e.class # "none" THEN Failed(e) ELSE open(f, h.path)

\* readFile(encoding)
readFile(h, f) ==
    LET e == FirstError(checkExistence(h, f, "readFile"),
                        checkAsFile(h, f, "readFile"))
    IN  IF e.class # "none" THEN Failed(e) ELSE nodeReadFile(f, h.path)

\* readFileSync(encoding)
readFileSync(h, f) ==
    LET e == FirstError(checkExistence(h, f, "readFileSync"),
                        checkAsFile(h, f, "readFileSync"))
    IN  IF e.class # "none" THEN Failed(e) ELSE nodeReadFileSync(f, h.path)

\* deleteFile() removing whatever exists at the path.
deleteFileOrDirectory(h, f) ==
    LET e == checkExistence(h, f, "deleteFile") IN
    IF e.class # "none" THEN Thrown(f, e)
    ELSE Done(Without(f, {h.path} \cup {p \in DOMAIN f : IsBelow(p, h.path)}), <<>>)

\* deleteFile()
deleteFile(h, f) ==
    LET e == FirstError(checkExistence(h, f, "deleteFile"),
                        checkAsFile(h, f, "deleteFile"))
    IN  IF e.class # "none" THEN Thrown(f, e)
        ELSE LET r == unlink(f, h.path) IN
             IF r.err.class # "none" THEN Thrown(r.fs, r.err) ELSE Done(r.fs, <<>>)

\* writeFile(data, encoding)
writeFile(h, f, data) ==
    LET d == IF exists(h, f) THEN deleteFile(h, f) ELSE Done(f, <<>>) IN
    IF d.err.class # "none" THEN Thrown(d.fs, d.err)
    ELSE LET r == nodeWriteFile(d.fs, h.path, data) IN
         IF r.err.class # "none" THEN Thrown(r.fs, r.err) ELSE Done(r.fs, h.path)

\* JSON.parse(text) of a text of NUL characters and characters "1": the
\* number the digits write, or a SyntaxError on the empty text and on a
\* text with a NUL character.
RECURSIVE JSONNumber(_)
JSONNumber(text) ==
    IF text = <<>> THEN 0
    ELSE 10 * JSONNumber(SubSeq(text, 1, Len(text) - 1)) + 1

JSONParse(text) ==
    IF text # <<>> /\ \A i \in 1..Len(text) : text[i] = 49
    THEN Got(JSONNumber(text))
    ELSE Failed(NodeError("SyntaxError"))

\* The catch clause of readJSONFile: an Error becomes a PathJSError with
\* its message.
Rethrown(r) ==
    IF r.err.class = "none" THEN r ELSE Failed(PathJSError("", <<>>))

\* readJSONFile(encoding)
readJSONFile(h, f) ==
    LET contents == nodeReadFile(f, h.path) IN
    IF contents.err.class # "none" THEN Failed(contents.err)
    ELSE Rethrown(JSONParse(contents.ret))

\* readJSONFileSync(encoding)
readJSONFileSync(h, f) ==
    LET contents == nodeReadFileSync(f, h.path) IN
    IF contents.err.class # "none" THEN Failed(contents.err)
    ELSE Rethrown(JSONParse(contents.ret))

\* The optional byteLength of readFileOffset.
Length(n) == [given |-> TRUE, len |-> n]
NoLength == [given |-> FALSE, len |-> 0]

\* Buffer.alloc(size): size zero bytes.
BufferAlloc(size) == [i \in 1..size |-> 0]

\* fileHandle.read(buffer, 0, length, position) on a file of content data:
\* the bytes of the file from position on, as many as length and the file
\* allow, are written to the start of the buffer.
FileHandleRead(data, buffer, length, position) ==
    [i \in 1..Len(buffer) |->
        IF i <= length /\ position + i <= Len(data) THEN data[position + i]
        ELSE buffer[i]]

\* buffer.subarray(start): the bytes from start on, none if start is past
\* the end.
subarray(buffer, start) ==
    IF start >= Len(buffer) THEN <<>>
    ELSE SubSeq(buffer, start + 1, Len(buffer))

\* readFileOffset() reading from the start of the file.
readFileOffsetFromStart(h, f, byteOffset, byteLength) ==
    LET e == checkAsFile(h, f, "readFileOffset") IN
    IF e.class # "none" THEN Failed(e)
    ELSE IF byteLength.given
    THEN LET fileOpen == open(f, h.path) IN
         IF fileOpen.err.class # "none" THEN Failed(fileOpen.err)
         ELSE Got(FileHandleRead(f[fileOpen.ret.fd].data,
                                 BufferAlloc(byteLength.len), byteLength.len, 0))
    ELSE LET fileBuffer == nodeReadFile(f, h.path) IN
         IF fileBuffer.err.class # "none" THEN Failed(fileBuffer.err)
         ELSE Got(subarray(fileBuffer.ret, 0))

\* readFileOffset(byteOffset, byteLength): checkAsFile is its only check.
readFileOffset(h, f, byteOffset, byteLength) ==
    LET e == checkAsFile(h, f, "readFileOffset") IN
    IF e.class # "none" THEN Failed(e)
    ELSE IF byteLength.given
    THEN LET fileOpen == open(f, h.path) IN
         IF fileOpen.err.class # "none" THEN Failed(fileOpen.err)
         ELSE Got(FileHandleRead(f[fileOpen.ret.fd].data,
                                 BufferAlloc(byteLength.len), byteLength.len,
                                 byteOffset))
    ELSE LET fileBuffer == nodeReadFile(f, h.path) IN
         IF fileBuffer.err.class # "none" THEN Failed(fileBuffer.err)
         ELSE Got(subarray(fileBuffer.ret, byteOffset))

\* checkThenDeleteFile()
checkThenDeleteFile(h, f) ==
    IF isDirPath(h, f) THEN Thrown(f, PathJSError("checkThenDeleteFile", h.path))
    ELSE IF exists(h, f) THEN deleteFile(h, f)
    ELSE Done(f, <<>>)

\* checkThenDeleteFileSync()
checkThenDeleteFileSync(h, f) ==
    IF isDirPath(h, f) THEN Thrown(f, PathJSError("checkThenDeleteFileSync", h.path))
    ELSE IF exists(h, f) THEN deleteFileSync(h, f)
    ELSE Done(f, <<>>)

\* renameFile(newPath)
renameFile(h, f, newPath) ==
    LET e == FirstError(checkExistence(h, f, "renameFile"),
                        checkAsFile(h, f, "renameFile"))
        nPath == Destination(h, newPath)
    IN  IF e.class # "none" THEN Thrown(f, e)
        ELSE IF exists(nPath, f) THEN Thrown(f, PathJSError("", nPath.path))
        ELSE LET r == rename(f, h.path, nPath.path) IN
             IF r.err.class # "none" THEN Thrown(r.fs, r.err) ELSE Done(r.fs, nPath.path)

\* copyFile(destPath)
copyFile(h, f, destPath) ==
    LET e == FirstError(checkExistence(h, f, "copyFile"),
                        checkAsFile(h, f, "copyFile"))
        dPath == Destination(h, destPath)
    IN  IF e.class # "none" THEN Thrown(f, e)
        ELSE IF exists(dPath, f) THEN Thrown(f, PathJSError("", dPath.path))
        ELSE LET r == nodeCopyFile(f, h.path, dPath.path) IN
             IF r.err.class # "none" THEN Thrown(r.fs, r.err) ELSE Done(r.fs, dPath.path)

\* data ?? '': the data given, or the empty content.
OrEmpty(data) == IF data.given THEN data.str ELSE <<>>

\* createFileOnDir() writing the file into the parent of the receiver.
createFileOnDirInRoot(h, f, filename, data) ==
    LET e == FirstError(checkExistence(h, f, "touch"),
                        checkAsDirectory(h, f, "touch"))
        newFilePath == resolve(<<h.root, filename>>)
    IN  IF e.class # "none" THEN Thrown(f, e)
        ELSE IF existsSync(f, newFilePath) THEN Thrown(f, PathJSError("", newFilePath))
        ELSE LET r == nodeWriteFile(f, newFilePath, OrEmpty(data)) IN
             IF r.err.class # "none" THEN Thrown(r.fs, r.err) ELSE Done(r.fs, newFilePath)

\* createFileOnDir(filename, data, encoding); its checks name touch.
createFileOnDir(h, f, filename, data) ==
    LET e == FirstError(checkExistence(h, f, "touch"),
                        checkAsDirectory(h, f, "touch"))
        newFilePath == resolve(<<h.path, filename>>)
    IN  IF e.class # "none" THEN Thrown(f, e)
        ELSE IF existsSync(f, newFilePath) THEN Thrown(f, PathJSError("", newFilePath))
        ELSE LET r == nodeWriteFile(f, newFilePath, OrEmpty(data)) IN
             IF r.err.class # "none" THEN Thrown(r.fs, r.err) ELSE Done(r.fs, newFilePath)

\* createFileOnDirSync() writing the file before it looks for it.
createFileOnDirSyncOverwrite(h, f, filename, data) ==
    LET e == FirstError(checkExistence(h, f, "touch"),
                        checkAsDirectory(h, f, "touch"))
        newFilePath == resolve(<<h.path, filename>>)
    IN  IF e.class # "none" THEN Thrown(f, e)
        ELSE LET r == nodeWriteFileSync(f, newFilePath, OrEmpty(data)) IN
             IF existsSync(f, newFilePath) THEN Thrown(r.fs, PathJSError("", newFilePath))
             ELSE IF r.err.class # "none" THEN Thrown(r.fs, r.err)
             ELSE Done(r.fs, newFilePath)

\* createFileOnDirSync(filename, data, encoding); its checks name touch.
createFileOnDirSync(h, f, filename, data) ==
    LET e == FirstError(checkExistence(h, f, "touch"),
                        checkAsDirectory(h, f, "touch"))
        newFilePath == resolve(<<h.path, filename>>)
    IN  IF e.class # "none" THEN Thrown(f, e)
        ELSE IF existsSync(f, newFilePath) THEN Thrown(f, PathJSError("", newFilePath))
        ELSE LET r == nodeWriteFileSync(f, newFilePath, OrEmpty(data)) IN
             IF r.err.class # "none" THEN Thrown(r.fs, r.err) ELSE Done(r.fs, newFilePath)

\* createFileWriteStream()
createFileWriteStream(h, f) ==
    LET d == IF exists(h, f) THEN deleteFile(h, f) ELSE Done(f, <<>>) IN
    IF d.err.class # "none" THEN Thrown(d.fs, d.err)
    ELSE createWriteStream(d.fs, h.path)

\* The names, resolved from the path of h if asked as absolute paths.
Listed(h, names, asAbsolutePaths) ==
    IF asAbsolutePaths THEN {resolve(<<h.path, n>>) : n \in names} ELSE names

\* readDir(asAbsolutePaths)
readDir(h, f, asAbsolutePaths) ==
    LET e == FirstError(checkExistence(h, f, "readDir"),
                        checkAsDirectory(h, f, "readDir"))
        r == readdir(f, h.path)
    IN  IF e.class # "none" THEN Failed(e)
        ELSE IF r.err.class # "none" THEN Failed(r.err)
        ELSE Got(Listed(h, r.ret, asAbsolutePaths))

\* readDirSync(asAbsolutePaths); its checks name readDir.
readDirSync(h, f, asAbsolutePaths) ==
    LET e == FirstError(checkExistence(h, f, "readDir"),
                        checkAsDirectory(h, f, "readDir"))
        r == readdirSync(f, h.path)
    IN  IF e.class # "none" THEN Failed(e)
        ELSE IF r.err.class # "none" THEN Failed(r.err)
        ELSE Got(Listed(h, r.ret, asAbsolutePaths))

\* mkDir(recursive)
mkDir(h, f, recursive) ==
    IF exists(h, f) THEN Thrown(f, PathJSError("", h.path))
    ELSE LET r == mkdir(f, h.path, recursive) IN
         IF r.err.class # "none" THEN Thrown(r.fs, r.err) ELSE Done(r.fs, h.path)

\* deleteDir() removing what is in the directory and leaving the directory.
deleteDirKeepingDirectory(h, f, recursive) ==
    LET e == FirstError(checkExistence(h, f, "rmDir"),
                        checkAsDirectory(h, f, "rmDir"))
    IN  IF e.class # "none" THEN Thrown(f, e)
        ELSE Done(Without(f, {p \in DOMAIN f : IsBelow(p, h.path)}), <<>>)

\* deleteDir(recursive); its checks name rmDir.
deleteDir(h, f, recursive) ==
    LET e == FirstError(checkExistence(h, f, "rmDir"),
                        checkAsDirectory(h, f, "rmDir"))
    IN  IF e.class # "none" THEN Thrown(f, e)
        ELSE LET r == rm(f, h.path, recursive) IN
             IF r.err.class # "none" THEN Thrown(r.fs, r.err) ELSE Done(r.fs, <<>>)

\* ----------------------------------------------------------------- actions

\* The call that has just returned: the method, its arguments, the value
\* returned, the error thrown and the disk before the call. The caller is
\* sequential: it looks at the outcome of a call (GoOn) before it makes the
\* next one.
Call(op, args, ret, err) ==
    [op |-> op, args |-> args, ret |-> ret, err |-> err, before |-> fs]

NoCall == [op |-> "none", args |-> <<>>, ret |-> <<>>, err |-> NoError, before |-> InitFs]

Idle == last.op = "none"

GoOn ==
    /\ ~Idle
    /\ last' = NoCall
    /\ UNCHANGED <<this, fs, calls, handles>>

\* new Path(...paths): the handle in use becomes the new one, unless the
\* constructor throws.
Construct(paths) ==
    LET r == constructor(paths) IN
    /\ Idle
    /\ Len(r.ret.path) <= MaxPathLen
    /\ this' = IF r.err.class = "none" THEN r.ret ELSE this
    /\ last' = Call("constructor", paths, r.ret, r.err)
    /\ UNCHANGED <<fs, calls, handles>>

\* new Path(s), of one raw string: a short one, a name with an extension
\* (as "package.json" in the tests) or a nested path (as "path/to" in the
\* README).
New == \E s \in ArgStrings \cup Examples : Construct(<<Raw(s)>>)

\* new Path(...paths), of raw strings and of the handle in use.
NewOfFragments ==
    \E n \in 0..MaxFrags :
        \E paths \in [1..n -> {Raw(s) : s \in FragStrings} \cup {Handle(this)}] :
            Construct(paths)

\* A method that reads: neither the disk nor the handle changes.
Read(op, args, ret, err) ==
    /\ Idle
    /\ last' = Call(op, args, ret, err)
    /\ UNCHANGED <<this, fs, calls, handles>>

Exists == Read("exists", <<>>, exists(this, fs), NoError)

Type == Read("type", <<>>, type(this, fs), NoError)

StrictType ==
    LET r == strictType(this, fs) IN Read("strictType", <<>>, r.ret, r.err)

ToJSON == Read("toJSON", <<>>, toJSON(this, fs), NoError)

Resolve ==
    \E paths \in SeqsUpTo(ArgStrings, MaxFrags) :
        LET r == resolveFrom(this, fs, paths) IN Read("resolve", paths, r.ret, r.err)

ChangeFileName ==
    \E newFileName \in {None} \cup {Some(s) : s \in ArgStrings} :
        \E newFileExt \in {None} \cup {Some(s) : s \in ArgStrings} :
            LET r == changeFileName(this, fs, newFileName, newFileExt) IN
            Read("changeFileName", <<newFileName, newFileExt>>, r.ret, r.err)

ChangeFileExt ==
    \E newFileExt \in ArgStrings :
        LET r == changeFileExt(this, fs, newFileExt) IN
        Read("changeFileExt", <<newFileExt>>, r.ret, r.err)

ChangeDirName ==
    \E newDirName \in ArgStrings :
        LET r == changeDirName(this, fs, newDirName) IN
        Read("changeDirName", <<newDirName>>, r.ret, r.err)

\* A method that writes: the disk becomes what the method leaves.
Write(op, args, r) ==
    /\ Idle
    /\ Cardinality(DOMAIN r.fs) <= MaxEntries + 1
    /\ fs' = r.fs
    /\ last' = Call(op, args, r.ret, r.err)
    /\ UNCHANGED <<this, calls, handles>>

WriteFileSync ==
    \E data \in Datas : Write("writeFileSync", <<data>>, writeFileSync(this, fs, data))

DeleteFileSync == Write("deleteFileSync", <<>>, deleteFileSync(this, fs))

\* The destinations of a rename or a copy: a short string, a new name with
\* an extension or a path into a directory.
DestStrings == ArgStrings \cup Examples

RenameFileSync ==
    \E newPath \in DestStrings :
        Write("renameFileSync", <<newPath>>, renameFileSync(this, fs, newPath))

CopyFileSync ==
    \E destPath \in DestStrings :
        Write("copyFileSync", <<destPath>>, copyFileSync(this, fs, destPath))

MkDirSync ==
    \E recursive \in BOOLEAN :
        Write("mkDirSync", <<recursive>>, mkDirSync(this, fs, recursive))

DeleteDirSync ==
    \E recursive \in BOOLEAN :
        Write("deleteDirSync", <<recursive>>, deleteDirSync(this, fs, recursive))

OpenFile == LET r == openFile(this, fs) IN Read("openFile", <<>>, r.ret, r.err)

ReadFile == LET r == readFile(this, fs) IN Read("readFile", <<>>, r.ret, r.err)

ReadFileSync ==
    LET r == readFileSync(this, fs) IN Read("readFileSync", <<>>, r.ret, r.err)

DeleteFile == Write("deleteFile", <<>>, deleteFile(this, fs))

WriteFile ==
    \E data \in Datas : Write("writeFile", <<data>>, writeFile(this, fs, data))

CheckThenDeleteFile ==
    Write("checkThenDeleteFile", <<>>, checkThenDeleteFile(this, fs))

CheckThenDeleteFileSync ==
    Write("checkThenDeleteFileSync", <<>>, checkThenDeleteFileSync(this, fs))

RenameFile ==
    \E newPath \in DestStrings :
        Write("renameFile", <<newPath>>, renameFile(this, fs, newPath))

CopyFile ==
    \E destPath \in DestStrings :
        Write("copyFile", <<destPath>>, copyFile(this, fs, destPath))

CreateFileOnDir ==
    \E filename \in DestStrings :
        \E data \in {None} \cup {Some(d) : d \in Datas} :
            Write("createFileOnDir", <<filename, data>>,
                  createFileOnDir(this, fs, filename, data))

CreateFileOnDirSync ==
    \E filename \in DestStrings :
        \E data \in {None} \cup {Some(d) : d \in Datas} :
            Write("createFileOnDirSync", <<filename, data>>,
                  createFileOnDirSync(this, fs, filename, data))

ReadJSONFile ==
    LET r == readJSONFile(this, fs) IN Read("readJSONFile", <<>>, r.ret, r.err)

ReadJSONFileSync ==
    LET r == readJSONFileSync(this, fs) IN Read("readJSONFileSync", <<>>, r.ret, r.err)

ReadFileOffset ==
    \E byteOffset \in 0..MaxOffset :
        \E byteLength \in {NoLength} \cup {Length(n) : n \in 0..MaxOffset} :
            LET r == readFileOffset(this, fs, byteOffset, byteLength) IN
            Read("readFileOffset", <<byteOffset, byteLength>>, r.ret, r.err)

CreateFileWriteStream ==
    Write("createFileWriteStream", <<>>, createFileWriteStream(this, fs))

ReadDir ==
    \E asAbsolutePaths \in BOOLEAN :
        LET r == readDir(this, fs, asAbsolutePaths) IN
        Read("readDir", <<asAbsolutePaths>>, r.ret, r.err)

ReadDirSync ==
    \E asAbsolutePaths \in BOOLEAN :
        LET r == readDirSync(this, fs, asAbsolutePaths) IN
        Read("readDirSync", <<asAbsolutePaths>>, r.ret, r.err)

MkDir ==
    \E recursive \in BOOLEAN :
        Write("mkDir", <<recursive>>, mkDir(this, fs, recursive))

DeleteDir ==
    \E recursive \in BOOLEAN :
        Write("deleteDir", <<recursive>>, deleteDir(this, fs, recursive))

\* ------------------------------- asynchronous methods, one await at a time
\*
\* A call of an asynchronous method runs synchronously up to its first await:
\* its guards read the disk as it is when the call is made. What it awaits
\* is a call of node:fs/promises that takes effect later, in any order with
\* the awaited calls of the other calls in flight; the rest of the method
\* runs when that call has completed.

\* A call made on the handle h that awaits pc; trace lists the awaited calls
\* that have completed, before is the disk when the call was made and
\* overlaps the calls that were in flight then.
Awaiting(op, h, args, pc) ==
    [op |-> op, h |-> h, args |-> args, pc |-> pc, trace |-> <<>>,
     ret |-> <<>>, err |-> NoError, before |-> InitFs, overlaps |-> {}]

\* A call that has thrown before its first await.
Rejected(op, h, args, err) ==
    [Awaiting(op, h, args, "settled") EXCEPT !.err = err]

InFlight(c) == c.pc \notin {"settled", "interrupted"}

\* The call c after the call it awaited has completed: it goes on to await
\* pc, it returns ret, or it throws err.
GoesOn(c, pc) == [c EXCEPT !.pc = pc, !.trace = Append(@, c.pc)]
Returns(c, ret) == [c EXCEPT !.pc = "settled", !.trace = Append(@, c.pc), !.ret = ret]
Throws(c, err) == [c EXCEPT !.pc = "settled", !.trace = Append(@, c.pc), !.err = err]

\* deleteFile() up to `await unlink(this.path)`, called by op.
deleteFileStart(op, h, f, args) ==
    LET e == FirstError(checkExistence(h, f, "deleteFile"),
                        checkAsFile(h, f, "deleteFile"))
    IN  IF e.class # "none" THEN Rejected(op, h, args, e)
        ELSE Awaiting(op, h, args, "unlink")

\* writeFile() that does not delete the file first.
writeFileStartNoDelete(h, f, data) == Awaiting("writeFile", h, <<data>>, "writeFile")

\* writeFile(data) up to its first await: of deleteFile() if the path
\* exists, of writeFile(this.path, data) if not.
writeFileStart(h, f, data) ==
    IF exists(h, f) THEN deleteFileStart("writeFile", h, f, <<data>>)
    ELSE Awaiting("writeFile", h, <<data>>, "writeFile")

\* renameFile(newPath) up to `await rename(this.path, nPath.path)`.
renameFileStart(h, f, newPath) ==
    LET e == FirstError(checkExistence(h, f, "renameFile"),
                        checkAsFile(h, f, "renameFile"))
        nPath == Destination(h, newPath)
    IN  IF e.class # "none" THEN Rejected("renameFile", h, <<newPath>>, e)
        ELSE IF exists(nPath, f)
        THEN Rejected("renameFile", h, <<newPath>>, PathJSError("", nPath.path))
        ELSE Awaiting("renameFile", h, <<newPath>>, "rename")

\* copyFile(destPath) up to `await copyFile(this.path, dPath.path)`.
copyFileStart(h, f, destPath) ==
    LET e == FirstError(checkExistence(h, f, "copyFile"),
                        checkAsFile(h, f, "copyFile"))
        dPath == Destination(h, destPath)
    IN  IF e.class # "none" THEN Rejected("copyFile", h, <<destPath>>, e)
        ELSE IF exists(dPath, f)
        THEN Rejected("copyFile", h, <<destPath>>, PathJSError("", dPath.path))
        ELSE Awaiting("copyFile", h, <<destPath>>, "copyFile")

\* readFileOffset(byteOffset, byteLength) up to its first await: of
\* open(this.path, 'r') with a length, of readFile(this.path) without.
readFileOffsetStart(h, f, byteOffset, byteLength) ==
    LET e == checkAsFile(h, f, "readFileOffset") IN
    IF e.class # "none" THEN Rejected("readFileOffset", h, <<byteOffset, byteLength>>, e)
    ELSE Awaiting("readFileOffset", h, <<byteOffset, byteLength>>,
                  IF byteLength.given THEN "open" ELSE "readFile")

\* The handles the calls are made on, the destinations and the lengths they
\* are given.
Receivers == {constructor(<<Raw(s)>>).ret : s \in {<<"a">>, <<"a", "a">>}}
AsyncDests == {<<"a">>, <<"a", ".", "a">>}
AsyncLengths == {NoLength, Length(-1), Length(1)}

\* The method is called while the calls made before may be in flight.
MakeCall(c) ==
    /\ Len(calls) < MaxCalls
    /\ \A i \in DOMAIN calls : calls[i].pc # "interrupted"
    /\ calls' = Append(calls, [c EXCEPT !.before = fs,
                                        !.overlaps = {i \in DOMAIN calls : InFlight(calls[i])}])
    /\ UNCHANGED <<this, fs, last, handles>>

CallWriteFile ==
    \E h \in Receivers : \E data \in Datas : MakeCall(writeFileStart(h, fs, data))

CallDeleteFile ==
    \E h \in Receivers : MakeCall(deleteFileStart("deleteFile", h, fs, <<>>))

CallRenameFile ==
    \E h \in Receivers : \E newPath \in AsyncDests :
        MakeCall(renameFileStart(h, fs, newPath))

CallCopyFile ==
    \E h \in Receivers : \E destPath \in AsyncDests :
        MakeCall(copyFileStart(h, fs, destPath))

CallReadFileOffset ==
    \E h \in Receivers : \E byteOffset \in 0..1 : \E byteLength \in AsyncLengths :
        MakeCall(readFileOffsetStart(h, fs, byteOffset, byteLength))

\* The awaited call of the call i completes: the disk becomes f and the call
\* becomes c.
Completes(i, f, c) ==
    /\ fs' = f
    /\ calls' = [calls EXCEPT ![i] = c]
    /\ UNCHANGED <<this, last>>

\* `await unlink(this.path)` of deleteFile(); writeFile() goes on to
\* `await writeFile(this.path, data)`.
AwaitUnlink ==
    \E i \in DOMAIN calls :
        LET c == calls[i]
            r == unlink(fs, c.h.path)
        IN  /\ c.pc = "unlink"
            /\ Completes(i, r.fs,
                         IF r.err.class # "none" THEN Throws(c, r.err)
                         ELSE IF c.op = "writeFile" THEN GoesOn(c, "writeFile")
                         ELSE Returns(c, <<>>))
            /\ UNCHANGED handles

\* `await writeFile(this.path, data)`, and `return this.path`.
AwaitWriteFile ==
    \E i \in DOMAIN calls :
        LET c == calls[i]
            r == nodeWriteFile(fs, c.h.path, c.args[1])
        IN  /\ c.pc = "writeFile"
            /\ Completes(i, r.fs,
                         IF r.err.class # "none" THEN Throws(c, r.err)
                         ELSE Returns(c, c.h.path))
            /\ UNCHANGED handles

\* `await rename(this.path, nPath.path)`
AwaitRename ==
    \E i \in DOMAIN calls :
        LET c == calls[i]
            nPath == Destination(c.h, c.args[1])
            r == rename(fs, c.h.path, nPath.path)
        IN  /\ c.pc = "rename"
            /\ Completes(i, r.fs,
                         IF r.err.class # "none" THEN Throws(c, r.err)
                         ELSE Returns(c, nPath.path))
            /\ UNCHANGED handles

\* `await copyFile(this.path, dPath.path)`
AwaitCopyFile ==
    \E i \in DOMAIN calls :
        LET c == calls[i]
            dPath == Destination(c.h, c.args[1])
            r == nodeCopyFile(fs, c.h.path, dPath.path)
        IN  /\ c.pc = "copyFile"
            /\ Completes(i, r.fs,
                         IF r.err.class # "none" THEN Throws(c, r.err)
                         ELSE Returns(c, dPath.path))
            /\ UNCHANGED handles

\* The handle the call i has opened: it keeps the entry it was opened on.
Opened(i, f, path) == [call |-> i, fd |-> path, kind |-> f[path].kind, data |-> f[path].data]

\* `await open(this.path, 'r')`, then Buffer.alloc(byteLength), which throws
\* a RangeError on a length below zero.
AwaitOpen ==
    \E i \in DOMAIN calls :
        LET c == calls[i]
            fileOpen == open(fs, c.h.path)
        IN  /\ c.pc = "open"
            /\ IF fileOpen.err.class # "none"
               THEN /\ Completes(i, fs, Throws(c, fileOpen.err))
                    /\ UNCHANGED handles
               ELSE /\ handles' = handles \cup {Opened(i, fs, fileOpen.ret.fd)}
                    /\ Completes(i, fs,
                                 IF c.args[2].len < 0 THEN Throws(c, NodeError("RangeError"))
                                 ELSE GoesOn(c, "read"))

\* `await fileOpen.read(buffer, 0, byteLength, byteOffset)`: the bytes are
\* read, or the read fails (an I/O error; EISDIR on a directory).
AwaitRead ==
    \E i \in DOMAIN calls : \E ok \in BOOLEAN :
        LET c == calls[i]
            fileOpen == CHOOSE x \in handles : x.call = i
        IN  /\ c.pc = "read"
            /\ ok => fileOpen.kind = "file"
            /\ Completes(i, fs,
                         IF ok
                         THEN [GoesOn(c, "close") EXCEPT
                                  !.ret = FileHandleRead(fileOpen.data,
                                                         BufferAlloc(c.args[2].len),
                                                         c.args[2].len, c.args[1])]
                         ELSE Throws(c, NodeError("SystemError")))
            /\ UNCHANGED handles

\* `await fileOpen.close()`, and `return buffer`.
AwaitClose ==
    \E i \in DOMAIN calls :
        LET c == calls[i] IN
        /\ c.pc = "close"
        /\ handles' = {x \in handles : x.call # i}
        /\ Completes(i, fs, Returns(c, c.ret))

\* `await readFile(this.path)`, and `return fileBuffer.subarray(byteOffset)`.
AwaitReadFile ==
    \E i \in DOMAIN calls :
        LET c == calls[i]
            fileBuffer == nodeReadFile(fs, c.h.path)
        IN  /\ c.pc = "readFile"
            /\ Completes(i, fs,
                         IF fileBuffer.err.class # "none" THEN Throws(c, fileBuffer.err)
                         ELSE Returns(c, subarray(fileBuffer.ret, c.args[1])))
            /\ UNCHANGED handles

\* The process is interrupted: the calls in flight never go on, what they
\* have done to the disk stays, and the handles of the process are gone.
Interrupt ==
    /\ \E i \in DOMAIN calls : InFlight(calls[i])
    /\ calls' = [i \in DOMAIN calls |->
                    IF InFlight(calls[i]) THEN [calls[i] EXCEPT !.pc = "interrupted"]
                    ELSE calls[i]]
    /\ handles' = {}
    /\ UNCHANGED <<this, fs, last>>

\* ---------------------------------------------------------- specifications

\* The program starts with a handle on the working directory, new Path().
Init ==
    /\ this = constructor(<<>>).ret
    /\ fs = InitFs
    /\ last = NoCall
    /\ calls = <<>>
    /\ handles = {}

\* Handles, their classification and the methods that change the disk.
Next ==
    \/ GoOn
    \/ New
    \/ Exists
    \/ Type
    \/ StrictType
    \/ ToJSON
    \/ WriteFileSync
    \/ DeleteFileSync
    \/ RenameFileSync
    \/ CopyFileSync
    \/ MkDirSync
    \/ DeleteDirSync
    \/ OpenFile
    \/ ReadFile
    \/ ReadFileSync
    \/ DeleteFile
    \/ WriteFile
    \/ CheckThenDeleteFile
    \/ CheckThenDeleteFileSync
    \/ RenameFile
    \/ CopyFile
    \/ CreateFileOnDir
    \/ CreateFileOnDirSync
    \/ CreateFileWriteStream
    \/ ReadDir
    \/ ReadDirSync
    \/ MkDir
    \/ DeleteDir
    \/ ReadJSONFile
    \/ ReadJSONFileSync

Spec == Init /\ [][Next]_vars

\* The constructor alone, over every list of fragments.
NextCtor ==
    \/ GoOn
    \/ NewOfFragments

SpecCtor == Init /\ [][NextCtor]_vars

\* The disks that differ from the first one at the path of h only: nothing,
\* a file or a directory there.
FsVariants(h) ==
    {InitFs} \cup
    (IF h.path = RootPath \/ ~ParentIsDirectory(InitFs, h.path) THEN {}
     ELSE {With(InitFs, h.path, File(<<>>)), With(InitFs, h.path, Directory)})

\* The path editors, applied to every handle of one raw string on every
\* disk that differs at its path.
InitEdit ==
    /\ this \in {constructor(<<Raw(s)>>).ret : s \in FragStrings}
    /\ fs \in FsVariants(this)
    /\ last = NoCall
    /\ calls = <<>>
    /\ handles = {}

NextEdit ==
    \/ GoOn
    \/ Resolve
    \/ ChangeFileName
    \/ ChangeFileExt
    \/ ChangeDirName

SpecEdit == InitEdit /\ [][NextEdit]_vars

\* The disks that differ from the first one at the path of h only: nothing,
\* a directory or a file of any content there.
ReadVariants(h) ==
    {InitFs} \cup
    (IF h.path = RootPath \/ ~ParentIsDirectory(InitFs, h.path) THEN {}
     ELSE {With(InitFs, h.path, Directory)} \cup
          {With(InitFs, h.path, File(d)) : d \in SeqsUpTo(Bytes, MaxFileLen)})

\* The methods that read a file, applied to every handle of one raw string
\* on every disk that differs at its path.
InitRead ==
    /\ this \in {constructor(<<Raw(s)>>).ret : s \in ArgStrings \cup Examples}
    /\ fs \in ReadVariants(this)
    /\ last = NoCall
    /\ calls = <<>>
    /\ handles = {}

NextRead ==
    \/ GoOn
    \/ OpenFile
    \/ ReadFile
    \/ ReadFileSync
    \/ ReadJSONFile
    \/ ReadJSONFileSync
    \/ ReadFileOffset

SpecRead == InitRead /\ [][NextRead]_vars

\* The disks the asynchronous calls start on: a file, or nothing, at the
\* path of each receiver.
AsyncDisks ==
    {[p \in {RootPath} \cup present |->
         IF p = RootPath THEN Directory
         ELSE IF p = <<Slash, "a">> THEN File(<<0>>) ELSE File(<<49>>)] :
     present \in SUBSET {h.path : h \in Receivers}}

\* Asynchronous calls made without awaiting the calls made before.
InitAsync ==
    /\ this = constructor(<<>>).ret
    /\ fs \in AsyncDisks
    /\ last = NoCall
    /\ calls = <<>>
    /\ handles = {}

NextAsync ==
    \/ CallWriteFile
    \/ CallDeleteFile
    \/ CallRenameFile
    \/ CallCopyFile
    \/ CallReadFileOffset
    \/ AwaitUnlink
    \/ AwaitWriteFile
    \/ AwaitRename
    \/ AwaitCopyFile
    \/ AwaitOpen
    \/ AwaitRead
    \/ AwaitClose
    \/ AwaitReadFile
    \/ Interrupt

SpecAsync == InitAsync /\ [][NextAsync]_vars

\* ------------------------------------------------------------- properties

\* The classification the documentation of type() describes: the kind of
\* the entry if the path exists, else "file" exactly for a path with an
\* extension.
Kind(h, f) ==
    IF h.path \in DOMAIN f THEN f[h.path].kind
    ELSE IF h.ext = <<>> THEN "directory" ELSE "file"

\* A list of fragments with no Path fragment but possibly the first.
PathOnlyFirst(paths) == \A i \in 1..Len(paths) : paths[i].isPath => i = 1

\* C1: every handle in use has path = join(root, fullname) and fullname =
\* name + ext; the constructor, given raw strings and at most one Path, in
\* first position, throws nothing, returns that handle and leaves the disk
\* as it was.
C1_ConstructionHolds ==
    /\ this.path = join(<<this.root, this.fullname>>)
    /\ this.fullname = this.name \o this.ext
    /\ (last.op = "constructor" /\ PathOnlyFirst(last.args))
           => /\ last.err.class = "none"
              /\ last.ret = this
              /\ fs = last.before

\* A handle built from a handle and a raw string, with a name and an
\* extension.
C1_Witness ==
    /\ last.op = "constructor"
    /\ Len(last.args) = 2
    /\ last.args[1].isPath
    /\ ~last.args[2].isPath
    /\ last.err.class = "none"
    /\ this.ext = <<Dot, "a">>
    /\ this.root # RootPath

\* C2: the constructor, given two Path fragments or a Path fragment that is
\* not the first, throws a PathJSError and returns no handle.
C2_MisplacedPathThrows ==
    (last.op = "constructor" /\ ~PathOnlyFirst(last.args))
        => /\ last.err.class = "PathJSError"
           /\ last.ret = NoHandle

\* A single Path fragment in second position was refused.
C2_Witness ==
    /\ last.op = "constructor"
    /\ Len(last.args) = 2
    /\ ~last.args[1].isPath
    /\ last.args[2].isPath
    /\ last.err.class = "PathJSError"

\* C3: type() throws nothing and returns "file" on a regular file,
\* "directory" on a directory, and on a path that does not exist "file" if
\* and only if ext is not empty.
C3_TypeLenient ==
    last.op = "type"
        => /\ last.err.class = "none"
           /\ (existsSync(fs, this.path) /\ fs[this.path].kind = "file")
                  => last.ret = "file"
           /\ (existsSync(fs, this.path) /\ fs[this.path].kind = "directory")
                  => last.ret = "directory"
           /\ ~existsSync(fs, this.path)
                  => (last.ret = "file" <=> this.ext # <<>>)
           /\ last.ret \in {"file", "directory"}

\* type() answered "file" for a path with an extension that does not exist.
C3_Witness ==
    /\ last.op = "type"
    /\ ~existsSync(fs, this.path)
    /\ this.ext = <<Dot, "a">>
    /\ last.ret = "file"

\* C4: strictType() throws a PathJSError when nothing exists at the path,
\* and else returns the kind of the entry, whatever the extension.
C4_StrictType ==
    last.op = "strictType"
        => IF ~existsSync(fs, this.path)
           THEN last.err.class = "PathJSError"
           ELSE /\ last.err.class = "none"
                /\ last.ret = fs[this.path].kind

\* strictType() answered "directory" for a directory named with an
\* extension.
C4_Witness ==
    /\ last.op = "strictType"
    /\ this.ext # <<>>
    /\ last.err.class = "none"
    /\ last.ret = "directory"

\* C5: after any sequence of calls that change the disk, type() answers
\* for the disk as it is now, and toJSON() holds exists and type as exists()
\* and type() give them now.
C5_NeverCached ==
    /\ last.op = "type" => last.ret = Kind(this, fs)
    /\ last.op = "toJSON"
           => /\ last.ret.exists = existsSync(fs, this.path)
              /\ last.ret.type = Kind(this, fs)
              /\ last.ret.exists = exists(this, fs)
              /\ last.ret.type = type(this, fs)

\* toJSON() on a disk that has changed: the path exists now, and its type
\* is not what the extension, or the first disk, told.
C5_Witness ==
    /\ last.op = "toJSON"
    /\ fs # InitFs
    /\ last.ret.exists
    /\ ~existsSync(InitFs, this.path)
    /\ last.ret.type # Kind(this, InitFs)

Editors == {"resolve", "changeFileName", "changeFileExt", "changeDirName"}

\* What the editor op returns or throws for receiver h on disk f.
Outcome(op, args, h, f) ==
    CASE op = "resolve" -> resolveFrom(h, f, args)
      [] op = "changeFileName" -> changeFileName(h, f, args[1], args[2])
      [] op = "changeFileExt" -> changeFileExt(h, f, args[1])
      [] op = "changeDirName" -> changeDirName(h, f, args[1])

Returned == [err |-> last.err, ret |-> last.ret]

\* C6, as claimed: an editor returns the same outcome on any two disks.
C6_SameOutcomeOnAnyDisk ==
    last.op \in Editors
        => \A f2 \in FsVariants(this) :
               Outcome(last.op, last.args, this, f2) = Returned

\* C6, amended: an editor leaves the disk as it was, and returns the same
\* outcome on any two disks on which the receiver classifies the same; with
\* an absolute first fragment, resolve returns the same on every disk.
C6_SameOutcomeOnSameType ==
    last.op \in Editors
        => /\ fs = last.before
           /\ \A f2 \in FsVariants(this) :
                  Kind(this, f2) = Kind(this, fs)
                      => Outcome(last.op, last.args, this, f2) = Returned
           /\ (last.op = "resolve" /\ Len(last.args) > 0 /\ isAbsolute(last.args[1]))
                  => \A f2 \in FsVariants(this) :
                         Outcome(last.op, last.args, this, f2) = Returned

\* An editor has returned for a receiver that classifies as a file here and
\* as a directory on another disk.
C6_Witness ==
    /\ last.op = "changeDirName"
    /\ last.err.class = "none"
    /\ \E f2 \in FsVariants(this) : Kind(this, f2) # Kind(this, fs)
    /\ \E f2 \in FsVariants(this) : f2 # fs /\ Kind(this, f2) = Kind(this, fs)

\* C7: resolve(fragments), of at least one fragment: plain resolution when
\* the first is absolute, the same for every receiver; else from the path of
\* a receiver that classifies as a directory, and from the root of one that
\* classifies as a file.
C7_ResolveBase ==
    (last.op = "resolve" /\ Len(last.args) > 0)
        => /\ last.err.class = "none"
           /\ last.ret =
                  IF isAbsolute(last.args[1]) THEN resolve(last.args)
                  ELSE IF Kind(this, fs) = "directory"
                  THEN resolve(<<this.path>> \o last.args)
                  ELSE resolve(<<this.root>> \o last.args)
           /\ isAbsolute(last.args[1])
                  => \A s \in FragStrings :
                         resolveFrom(constructor(<<Raw(s)>>).ret, fs, last.args).ret
                             = last.ret

\* A relative fragment resolved from the root of a file, to a path that
\* resolving from the path of the file would not give.
C7_Witness ==
    /\ last.op = "resolve"
    /\ Len(last.args) = 1
    /\ ~isAbsolute(last.args[1])
    /\ existsSync(fs, this.path)
    /\ fs[this.path].kind = "file"
    /\ last.ret # resolve(<<this.path>> \o last.args)
    /\ last.ret # this.root

HasSlash(s) == \E i \in 1..Len(s) : s[i] = Slash

\* An extension as passed, without its leading dot.
Undotted(s) == IF Len(s) > 0 /\ s[1] = Dot THEN SubSeq(s, 2, Len(s)) ELSE s

NewName(h, args) == IF args[1].given THEN args[1].str ELSE h.name
NewExt(h, args) ==
    IF args[2].given THEN Undotted(args[2].str) ELSE Undotted(h.ext)

C10_ChangeDirNameJoin ==
    last.op = "changeDirName"
        => IF Kind(this, fs) = "file"
           THEN last.err.class = "PathJSError"
           ELSE /\ last.err.class = "none"
                /\ last.ret = join(<<this.root, last.args[1]>>)

\* C10, amended: it returns resolve(root, newName), which is join(root,
\* newName) when the new name holds no separator; the extension of the
\* receiver plays no part.
C10_ChangeDirNameResolve ==
    last.op = "changeDirName"
        => IF Kind(this, fs) = "file"
           THEN last.err.class = "PathJSError"
           ELSE /\ last.err.class = "none"
                /\ last.ret = resolve(<<this.root, last.args[1]>>)
                /\ ~HasSlash(last.args[1])
                       => last.ret = join(<<this.root, last.args[1]>>)

\* A directory named with an extension, given a new name.
C10_Witness ==
    /\ last.op = "changeDirName"
    /\ existsSync(fs, this.path)
    /\ this.ext # <<>>
    /\ last.args[1] = <<"a", "a">>
    /\ last.err.class = "none"
    /\ last.ret = this.root \o <<"a", "a">>

\* The methods that open, read or delete the file of the handle.
FileGuarded == {"openFile", "readFile", "readFileSync", "deleteFile", "deleteFileSync"}

\* C11: openFile, readFile, readFileSync, deleteFile and deleteFileSync
\* throw the PathJSError of the existence check when nothing exists at the
\* path, and the PathJSError of the type check when what exists there is no
\* regular file; either way no call has reached the disk, which is as it was.
C11_FileGuards ==
    last.op \in FileGuarded
        => /\ ~existsSync(last.before, this.path)
                => /\ last.err = PathJSError(last.op, this.path)
                   /\ fs = last.before
           /\ (existsSync(last.before, this.path) /\ ~isFile(last.before, this.path))
                => /\ last.err = PathJSError(last.op, this.path)
                   /\ fs = last.before

\* deleteFileSync has thrown on a directory that is not the root.
C11_Witness ==
    /\ last.op = "deleteFileSync"
    /\ this.path # RootPath
    /\ existsSync(last.before, this.path)
    /\ isDirectory(last.before, this.path)
    /\ last.err.class = "PathJSError"

\* C12: a call that ends in a PathJSError leaves the disk as it was.
C12_GuardsBeforeMutation ==
    last.err.class = "PathJSError" => fs = last.before

\* writeFile has thrown on a directory, renameFileSync on a destination that
\* exists, createFileOnDirSync on a file name that exists.
C12_Witness ==
    /\ last.err.class = "PathJSError"
    /\ Cardinality(DOMAIN last.before) > 1
    /\ \/ /\ last.op = "createFileOnDirSync"
          /\ existsSync(last.before, this.path)
          /\ isDirectory(last.before, this.path)
       \/ /\ last.op \in {"renameFileSync", "copyFile"}
          /\ existsSync(last.before, this.path)
          /\ isFile(last.before, this.path)
       \/ /\ last.op \in {"writeFile", "writeFileSync"}
          /\ existsSync(last.before, this.path)
          /\ isDirectory(last.before, this.path)

WriteOps == {"writeFile", "writeFileSync"}

\* What the write method op does for receiver h on disk f.
WriteOf(op, h, f, data) ==
    IF op = "writeFile" THEN writeFile(h, f, data) ELSE writeFileSync(h, f, data)

\* Nothing, or a regular file, is at the path of h.
AbsentOrFile(h, f) == ~existsSync(f, h.path) \/ isFile(f, h.path)

\* The write of c1 and then, once it has returned, of c2: both return the
\* path of h, and the disk differs from f in the regular file of content c2
\* at that path, and in nothing else.
WrittenTwice(op, h, f, c1, c2) ==
    LET r1 == WriteOf(op, h, f, c1)
        r2 == WriteOf(op, h, r1.fs, c2)
    IN  /\ r1.err.class = "none" /\ r1.ret = h.path
        /\ r2.err.class = "none" /\ r2.ret = h.path
        /\ r2.fs = With(f, h.path, File(c2))

RenameOps == {"renameFile", "renameFileSync"}
CopyOps == {"copyFile", "copyFileSync"}

\* The destination a call resolves to: newPath resolved from the root of
\* the source; an absolute newPath is resolved on its own.
ResolvedDestination(h, newPath) == resolve(<<h.root, newPath>>)

\* C14: renameFile, renameFileSync, copyFile and copyFileSync to a
\* destination that exists throw a PathJSError, the one that says so when
\* the source is a regular file, and leave the disk as it was.
C14_DestinationExists ==
    (/\ last.op \in RenameOps \cup CopyOps
     /\ existsSync(last.before, ResolvedDestination(this, last.args[1])))
        => /\ last.err.class = "PathJSError"
           /\ fs = last.before
           /\ (existsSync(last.before, this.path) /\ isFile(last.before, this.path))
                  => last.err = PathJSError("", ResolvedDestination(this, last.args[1]))

\* renameFile of a regular file to its own path has thrown.
C14_Witness ==
    /\ last.op = "renameFile"
    /\ existsSync(last.before, this.path)
    /\ isFile(last.before, this.path)
    /\ ResolvedDestination(this, last.args[1]) = this.path
    /\ last.err.class = "PathJSError"

\* The source is a regular file and nothing is at the destination.
FileToAbsent(h, f, newPath) ==
    /\ existsSync(f, h.path)
    /\ isFile(f, h.path)
    /\ ~existsSync(f, ResolvedDestination(h, newPath))

\* The call has returned the destination, which holds what the source held
\* before; the source is gone, and nothing else has changed.
Renamed ==
    LET dest == ResolvedDestination(this, last.args[1]) IN
    /\ last.err.class = "none"
    /\ last.ret = dest
    /\ fs = With(Without(last.before, {this.path}), dest, last.before[this.path])

\* C15, as claimed: the rename of a regular file to a destination that is
\* absent moves the file there and returns the destination.
C15_Rename ==
    (last.op \in RenameOps /\ FileToAbsent(this, last.before, last.args[1]))
        => Renamed

\* C15, amended: the same when the destination lies in a directory that
\* exists; else the call throws no PathJSError and the file stays.
C15_RenameIntoDirectory ==
    (last.op \in RenameOps /\ FileToAbsent(this, last.before, last.args[1]))
        => IF ParentIsDirectory(last.before, ResolvedDestination(this, last.args[1]))
           THEN Renamed
           ELSE /\ last.err.class \notin {"none", "PathJSError"}
                /\ fs = last.before

\* renameFileSync has moved a file with content to a relative destination.
C15_Witness ==
    /\ last.op = "renameFileSync"
    /\ last.err.class = "none"
    /\ ~isAbsolute(last.args[1])
    /\ ~existsSync(fs, this.path)
    /\ fs[last.ret].data # <<>>

\* The call has returned the destination, which holds what the source
\* holds; the source and everything else are as they were.
Copied ==
    LET dest == ResolvedDestination(this, last.args[1]) IN
    /\ last.err.class = "none"
    /\ last.ret = dest
    /\ fs = With(last.before, dest, last.before[this.path])

\* C16, as claimed: the copy of a regular file to a destination that is
\* absent leaves the source as it was and the same content at the
\* destination, and returns the destination.
C16_Copy ==
    (last.op \in CopyOps /\ FileToAbsent(this, last.before, last.args[1]))
        => Copied

\* C16, amended: the same when the destination lies in a directory that
\* exists; else the call throws no PathJSError and nothing is created.
C16_CopyIntoDirectory ==
    (last.op \in CopyOps /\ FileToAbsent(this, last.before, last.args[1]))
        => IF ParentIsDirectory(last.before, ResolvedDestination(this, last.args[1]))
           THEN Copied
           ELSE /\ last.err.class \notin {"none", "PathJSError"}
                /\ fs = last.before

\* copyFile has copied a file with content to a relative destination.
C16_Witness ==
    /\ last.op = "copyFile"
    /\ last.err.class = "none"
    /\ ~isAbsolute(last.args[1])
    /\ existsSync(fs, this.path)
    /\ last.ret # this.path
    /\ fs[last.ret] = fs[this.path]
    /\ fs[last.ret].data # <<>>

\* if (exists()) deleteFile(), or deleteFileSync() for the synchronous
\* method, on disk f.
IfExistsDelete(op, h, f) ==
    IF ~exists(h, f) THEN Done(f, <<>>)
    ELSE IF op = "checkThenDeleteFile" THEN deleteFile(h, f)
    ELSE deleteFileSync(h, f)

\* C17: checkThenDeleteFile and checkThenDeleteFileSync end as
\* "if (exists()) deleteFile()" ends from the same disk: with the same
\* error, or none, and the same disk.
C17_SameAsIfExistsDelete ==
    last.op \in {"checkThenDeleteFile", "checkThenDeleteFileSync"}
        => LET r == IfExistsDelete(last.op, this, last.before) IN
           /\ last.err.class = r.err.class
           /\ fs = r.fs

\* checkThenDeleteFileSync has thrown on a path where nothing exists.
C17_Witness ==
    /\ last.op = "checkThenDeleteFileSync"
    /\ ~existsSync(last.before, this.path)
    /\ last.err.class = "PathJSError"

\* The bytes [from, to) of a content.
Slice(data, from, to) == SubSeq(data, from + 1, to)

\* C18: on a regular file of n bytes, readFileOffset(o, l) with o + l <= n
\* returns the l bytes [o, o + l), readFileOffset(o) with o <= n returns the
\* n - o bytes [o, n), readFileOffset(o, n - o) returns what readFileOffset(o)
\* returns, and the file is as it was.
C18_ReadFileOffset ==
    (/\ last.op = "readFileOffset"
     /\ existsSync(last.before, this.path)
     /\ isFile(last.before, this.path))
        => LET data == last.before[this.path].data
               n == Len(data)
               o == last.args[1]
               l == last.args[2]
           IN  /\ fs = last.before
               /\ (l.given /\ o + l.len <= n)
                      => /\ last.err.class = "none"
                         /\ Len(last.ret) = l.len
                         /\ last.ret = Slice(data, o, o + l.len)
               /\ (~l.given /\ o <= n)
                      => /\ last.err.class = "none"
                         /\ Len(last.ret) = n - o
                         /\ last.ret = Slice(data, o, n)
               /\ o <= n
                      => readFileOffset(this, fs, o, Length(n - o))
                             = readFileOffset(this, fs, o, NoLength)

\* readFileOffset has returned one byte from the middle of a file.
C18_Witness ==
    /\ last.op = "readFileOffset"
    /\ last.err.class = "none"
    /\ existsSync(fs, this.path)
    /\ isFile(fs, this.path)
    /\ last.args[1] > 0
    /\ last.args[2].given
    /\ last.args[2].len > 0
    /\ last.args[1] + last.args[2].len < Len(fs[this.path].data)
    /\ last.ret = <<49>>

\* C19: readFileOffset throws a PathJSError when nothing exists at the path
\* and when a directory is there.
C19_ReadFileOffsetGuards ==
    last.op = "readFileOffset"
        => /\ ~existsSync(last.before, this.path)
                => last.err.class = "PathJSError"
           /\ (existsSync(last.before, this.path) /\ isDirectory(last.before, this.path))
                => last.err.class = "PathJSError"

\* readFileOffset has thrown an error of node on a path where nothing
\* exists.
C19_Witness ==
    /\ last.op = "readFileOffset"
    /\ ~existsSync(last.before, this.path)
    /\ last.err.class = "SystemError"

\* C20: readJSONFile and readJSONFileSync throw a PathJSError when nothing
\* exists at the path and when a directory is there, as they do on a file
\* whose content is no JSON text.
C20_ReadJSONFileGuards ==
    last.op \in {"readJSONFile", "readJSONFileSync"}
        => /\ ~existsSync(last.before, this.path)
                => last.err.class = "PathJSError"
           /\ (existsSync(last.before, this.path) /\ isDirectory(last.before, this.path))
                => last.err.class = "PathJSError"
           /\ (/\ existsSync(last.before, this.path)
               /\ isFile(last.before, this.path)
               /\ JSONParse(last.before[this.path].data).err.class # "none")
                => last.err.class = "PathJSError"

\* readJSONFileSync has thrown an error of node on a directory that is not
\* the root.
C20_Witness ==
    /\ last.op = "readJSONFileSync"
    /\ this.path # RootPath
    /\ existsSync(last.before, this.path)
    /\ isDirectory(last.before, this.path)
    /\ last.err.class = "SystemError"

CreateOps == {"createFileOnDir", "createFileOnDirSync"}

\* The call has thrown a PathJSError and the disk is as it was.
Refused == last.err.class = "PathJSError" /\ fs = last.before

\* The call has returned target, a regular file of the data given, or of no
\* content when none was given; nothing else has changed.
Created(target) ==
    /\ last.err.class = "none"
    /\ last.ret = target
    /\ fs = With(last.before, target,
                 File(IF last.args[2].given THEN last.args[2].str ELSE <<>>))

\* C21, as claimed: createFileOnDir and createFileOnDirSync throw a
\* PathJSError when the receiver is missing, is no directory, or holds the
\* file name already, and else create the file with the data given.
C21_CreateFileOnDir ==
    last.op \in CreateOps
        => LET target == resolve(<<this.path, last.args[1]>>) IN
           IF \/ ~existsSync(last.before, this.path)
              \/ ~isDirectory(last.before, this.path)
              \/ existsSync(last.before, target)
           THEN Refused
           ELSE Created(target)

\* C21, amended: the file is created when the directory it resolves into
\* exists; else the call throws no PathJSError and nothing is created.
C21_CreateFileInDirectory ==
    last.op \in CreateOps
        => LET target == resolve(<<this.path, last.args[1]>>) IN
           IF \/ ~existsSync(last.before, this.path)
              \/ ~isDirectory(last.before, this.path)
              \/ existsSync(last.before, target)
           THEN Refused
           ELSE IF ParentIsDirectory(last.before, target)
           THEN Created(target)
           ELSE /\ last.err.class \notin {"none", "PathJSError"}
                /\ fs = last.before

\* createFileOnDir has created a file with content in a directory that is
\* not the root.
C21_Witness ==
    /\ last.op = "createFileOnDir"
    /\ last.err.class = "none"
    /\ this.path # RootPath
    /\ dirname(last.ret) = this.path
    /\ fs[last.ret].data # <<>>

GuardError == last.err.class = "PathJSError" /\ last.err.operator # ""

\* C23: every PathJSError raised by a guard carries the path of the handle
\* and the name of the operation that was invoked.
C23_ErrorNamesOperation ==
    GuardError => last.err.operator = last.op /\ last.err.path = this.path

\* copyFileSync has failed on a guard, and the error names copyFile.
C23_Witness ==
    /\ last.op = "copyFileSync"
    /\ last.err = PathJSError("copyFile", this.path)
    /\ ~existsSync(last.before, this.path)

AsyncOps ==
    {"readFile", "readJSONFile", "writeFile", "deleteFile", "checkThenDeleteFile",
     "renameFile", "copyFile", "createFileOnDir", "readDir", "mkDir", "deleteDir"}

\* What a method that reads leaves behind: the disk as it was.
Reading(f, r) == [fs |-> f, ret |-> r.ret, err |-> r.err]

\* The synchronous counterpart of the asynchronous operation op, called on
\* h with the same arguments on the disk f.
SyncCounterpart(op, h, f, args) ==
    CASE op = "readFile" -> Reading(f, readFileSync(h, f))
      [] op = "readJSONFile" -> Reading(f, readJSONFileSync(h, f))
      [] op = "writeFile" -> writeFileSync(h, f, args[1])
      [] op = "deleteFile" -> deleteFileSync(h, f)
      [] op = "checkThenDeleteFile" -> checkThenDeleteFileSync(h, f)
      [] op = "renameFile" -> renameFileSync(h, f, args[1])
      [] op = "copyFile" -> copyFileSync(h, f, args[1])
      [] op = "createFileOnDir" -> createFileOnDirSync(h, f, args[1], args[2])
      [] op = "readDir" -> Reading(f, readDirSync(h, f, args[1]))
      [] op = "mkDir" -> mkDirSync(h, f, args[1])
      [] op = "deleteDir" -> deleteDirSync(h, f, args[1])

\* C24: an asynchronous operation run alone to completion gives the result,
\* or the class of error, and the disk that its synchronous counterpart
\* gives from the same disk with the same arguments.
C24_SyncAsyncSameContract ==
    last.op \in AsyncOps
        => LET s == SyncCounterpart(last.op, this, last.before, last.args) IN
           /\ last.err.class = s.err.class
           /\ last.ret = s.ret
           /\ fs = s.fs

\* deleteDir has removed a directory together with what was in it.
C24_Witness ==
    /\ last.op = "deleteDir"
    /\ last.err.class = "none"
    /\ ~existsSync(fs, this.path)
    /\ \E p \in DOMAIN last.before : IsBelow(p, this.path)

OverwriteOps == {"writeFile", "writeFileSync", "createFileWriteStream"}

\* C26: writeFile, writeFileSync and createFileWriteStream, called while a
\* directory exists at the path, fail with a PathJSError and leave the
\* directory and everything else on the disk as it was.
C26_DirectoryNotOverwritten ==
    (last.op \in OverwriteOps /\ existsSync(last.before, this.path)
                               /\ isDirectory(last.before, this.path))
        => /\ last.err.class = "PathJSError"
           /\ fs = last.before

\* createFileWriteStream was called on a directory that holds an entry.
C26_Witness ==
    /\ last.op = "createFileWriteStream"
    /\ last.err.class = "PathJSError"
    /\ isDirectory(last.before, this.path)
    /\ this.path # RootPath
    /\ \E p \in DOMAIN fs : IsBelow(p, this.path)

\* C29: on a handle that classifies as a file, changeFileName(null) with no
\* new extension returns the path of the handle, and so does changeFileExt
\* called with the extension of the handle, also for a file that exists and
\* whose name has no extension.
C29_OwnIdentityIsIdentity ==
    type(this, fs) = "file"
        => /\ (last.op = "changeFileName" /\ last.args = <<None, None>>)
                => last.err.class = "none" /\ last.ret = this.path
           /\ (last.op = "changeFileExt" /\ last.args[1] = this.ext)
                => last.err.class = "none" /\ last.ret = this.path

\* changeFileExt was called with the empty extension of a file that exists,
\* and has returned its path with a dot appended.
C29_Witness ==
    /\ last.op = "changeFileExt"
    /\ last.args[1] = this.ext
    /\ this.ext = <<>>
    /\ existsSync(fs, this.path) /\ isFile(fs, this.path)
    /\ last.err.class = "none"
    /\ last.ret = this.path \o <<Dot>>

\* The calls of writeFile, and the path a call is made on.
WriteFileCalls == {i \in DOMAIN calls : calls[i].op = "writeFile"}
PathOf(c) == c.h.path
Succeeded(c) == c.pc = "settled" /\ c.err.class = "none"

\* Of a call of writeFile: unlink is never awaited after writeFile; a call
\* made on a file awaits unlink first, a call made on a path that does not
\* exist awaits no unlink; and when the call runs alone, nothing exists at
\* the path once unlink has completed and writeFile has not, also if the
\* process was interrupted then.
DeleteBeforeWrite ==
    \A i \in WriteFileCalls :
        LET c == calls[i] IN
        /\ c.trace \in {<<>>, <<"unlink">>, <<"writeFile">>, <<"unlink", "writeFile">>}
        /\ (existsSync(c.before, PathOf(c)) /\ c.trace # <<>>) => c.trace[1] = "unlink"
        /\ (~existsSync(c.before, PathOf(c)) /\ c.trace # <<>>) => c.trace[1] = "writeFile"
        /\ (Len(calls) = 1 /\ c.trace = <<"unlink">> /\ c.err.class = "none")
              => /\ c.pc \in {"writeFile", "interrupted"}
                 /\ ~existsSync(fs, PathOf(c))

\* A step of a call of writeFile: the completion of unlink removes the file
\* and writes nothing, the completion of writeFile puts the data at the
\* path, and an interruption changes nothing on the disk.
DeleteThenWriteStep ==
    \A i \in WriteFileCalls :
        LET c == calls[i]
            d == calls'[i]
        IN  /\ (c.pc = "unlink" /\ d.pc = "writeFile")
                  => fs' = Without(fs, {PathOf(c)})
            /\ (c.pc = "writeFile" /\ Succeeded(d))
                  => fs' = With(fs, PathOf(c), File(c.args[1]))
            /\ (InFlight(c) /\ d.pc = "interrupted") => fs' = fs

\* C25: writeFile over a file that exists deletes the file, then writes, and
\* never the reverse; between the two nothing exists at the path, and an
\* interruption there leaves the path absent; on a path that does not exist
\* it deletes nothing.
C25_DeleteThenWrite == []DeleteBeforeWrite /\ [][DeleteThenWriteStep]_vars

\* A call of writeFile on a file with content was interrupted after the
\* file was deleted: nothing is at the path.
C25_Witness ==
    /\ Len(calls) = 1
    /\ calls[1].op = "writeFile"
    /\ calls[1].pc = "interrupted"
    /\ calls[1].trace = <<"unlink">>
    /\ calls[1].before[PathOf(calls[1])].data # <<>>
    /\ calls[1].args[1] # <<>>
    /\ ~existsSync(fs, PathOf(calls[1]))

MoveOps == {"renameFile", "copyFile"}

\* Two calls of renameFile / copyFile, the second made while the first was
\* in flight, that resolve to one destination, where nothing existed.
Overlapping(i, j) == i \in calls[j].overlaps
SameDestination(i, j) ==
    /\ calls[i].op \in MoveOps /\ calls[j].op \in MoveOps
    /\ Overlapping(i, j)
    /\ Destination(calls[i].h, calls[i].args[1]) = Destination(calls[j].h, calls[j].args[1])
    /\ ~existsSync(calls[i].before, Destination(calls[i].h, calls[i].args[1]).path)

\* What the call copies or moves to its destination.
SourceData(c) == c.before[PathOf(c)].data

\* C27: of two overlapping calls of renameFile / copyFile to the same
\* destination, initially absent, at most one succeeds, and what it has put
\* at the destination is not overwritten by the other.
C27_NoOverwriteWhenOverlapping ==
    \A i \in DOMAIN calls : \A j \in DOMAIN calls :
        (SameDestination(i, j) /\ ~InFlight(calls[i]) /\ ~InFlight(calls[j]))
            => /\ ~(Succeeded(calls[i]) /\ Succeeded(calls[j]))
               /\ \A k \in {i, j} :
                     Succeeded(calls[k])
                         => LET dest == Destination(calls[k].h, calls[k].args[1]).path IN
                            existsSync(fs, dest) /\ fs[dest].data = SourceData(calls[k])

\* Two overlapping copies of different files to one destination have both
\* succeeded, and the destination holds what the second one put there.
C27_Witness ==
    /\ Len(calls) = 2
    /\ SameDestination(1, 2)
    /\ calls[1].op = "copyFile" /\ calls[2].op = "copyFile"
    /\ Succeeded(calls[1]) /\ Succeeded(calls[2])
    /\ SourceData(calls[1]) # SourceData(calls[2])
    /\ fs[calls[1].ret].data # SourceData(calls[1])

\* Two calls of writeFile on one path that held a file, the second made
\* while the first was in flight.
WritesInFlight(i, j) ==
    /\ calls[i].op = "writeFile" /\ calls[j].op = "writeFile"
    /\ PathOf(calls[i]) = PathOf(calls[j])
    /\ Overlapping(i, j)
    /\ existsSync(calls[i].before, PathOf(calls[i]))
    /\ isFile(calls[i].before, PathOf(calls[i]))

\* C28: two calls of writeFile in flight at the same time on a path that
\* holds a file both complete without error, and the path then holds a file
\* with the content of one of the two.
C28_BothWritesComplete ==
    \A i \in DOMAIN calls : \A j \in DOMAIN calls :
        (WritesInFlight(i, j) /\ calls[i].pc = "settled" /\ calls[j].pc = "settled")
            => /\ calls[i].err.class = "none"
               /\ calls[j].err.class = "none"
               /\ existsSync(fs, PathOf(calls[i]))
               /\ isFile(fs, PathOf(calls[i]))
               /\ fs[PathOf(calls[i])].data \in {calls[i].args[1], calls[j].args[1]}

\* The second of two calls of writeFile in flight has failed on its unlink
\* with the error of node, the first has written.
C28_Witness ==
    /\ Len(calls) = 2
    /\ WritesInFlight(1, 2)
    /\ Succeeded(calls[1])
    /\ calls[2].pc = "settled"
    /\ calls[2].err = NodeError("SystemError")
    /\ calls[2].trace = <<"unlink">>
    /\ fs[PathOf(calls[1])].data = calls[1].args[1]

\* C30: once a call of readFileOffset with a length has completed, by
\* returning or by throwing, no file handle it has opened is open.
C30_HandleReleased ==
    \A i \in DOMAIN calls :
        (calls[i].op = "readFileOffset" /\ calls[i].args[2].given /\ calls[i].pc = "settled")
            => ~\E x \in handles : x.call = i

\* A call of readFileOffset has failed on its read, and its handle is open.
C30_Witness ==
    /\ Len(calls) = 1
    /\ calls[1].op = "readFileOffset"
    /\ calls[1].pc = "settled"
    /\ calls[1].trace = <<"open", "read">>
    /\ calls[1].err = NodeError("SystemError")
    /\ \E x \in handles : x.call = 1 /\ x.fd = PathOf(calls[1])

====
